---- MODULE Spec2Model ----
(***************************************************************************)
(* Model of the libcurl callbacks transport adapter (CurlSession and       *)
(* MyTransport::Send).  One behaviour is one exchange: the transport       *)
(* creates a session, the session configures the libcurl easy handle,      *)
(* libcurl runs the transfer and calls back into the session, the session  *)
(* wraps the receive buffer in a body stream and the caller reads it.      *)
(*                                                                         *)
(* Bytes are ASCII codes and strings are sequences of bytes; a pointer     *)
(* into a fragment [first,last) is a 1-based index, `last` being           *)
(* Len(fragment) + 1.                                                      *)
(***************************************************************************)
EXTENDS Integers, Sequences, FiniteSets, TLC

(***************************************************************************)
(* Bounds of the model.                                                    *)
(***************************************************************************)
\* header-callback invocations libcurl makes in one transfer
MaxHdrFrags == 3
\* data-receive callback invocations libcurl makes in one transfer
MaxBodyFrags == 2
\* largest destination capacity libcurl offers the upload callback
MaxCap == 2
\* largest count the caller passes to Read on the response body stream
MaxRead == 2

(***************************************************************************)
(* Characters and literals of the source.                                  *)
(***************************************************************************)
CR == 13
LF == 10
SP == 32
TAB == 9
COLON == 58
DOT == 46
HttpWordLen == 4
UnknownLength == -1
INT_MAX == 2147483647

\* "transfer-encoding"
TransferEncodingName == <<116,114,97,110,115,102,101,114,45,101,110,99,111,100,105,110,103>>
\* "chunked"
ChunkedToken == <<99,104,117,110,107,101,100>>
\* "Expect:"
ExpectHeader == <<69,120,112,101,99,116,58>>

(***************************************************************************)
(* std::string / <algorithm> helpers.                                      *)
(***************************************************************************)
\* std::find(start, last, ch) on fragment s: the first index >= start that
\* holds ch, or last (= Len(s) + 1).  Only defined for start <= last.
Find(s, start, ch) ==
    LET hits == {i \in start..Len(s) : s[i] = ch}
    IN  IF hits = {} THEN Len(s) + 1
        ELSE CHOOSE i \in hits : \A j \in hits : i <= j

\* std::string(start, end)
Str(s, start, end) == SubSeq(s, start, end - 1)

\* std::string::find(needle) != npos
Contains(hay, needle) ==
    \E i \in 1..(Len(hay) - Len(needle) + 1) :
        SubSeq(hay, i, i + Len(needle) - 1) = needle

ToLowerChar(c) == IF c >= 65 /\ c <= 90 THEN c + 32 ELSE c

\* Azure::Core::_internal::StringExtensions::ToLower
ToLower(s) == [i \in 1..Len(s) |-> ToLowerChar(s[i])]

IsDigit(c) == c >= 48 /\ c <= 57

\* std::isspace in the "C" locale
IsSpace(c) == c \in {SP, TAB, LF, 11, 12, CR}

RECURSIVE SkipSpace(_, _)
SkipSpace(s, i) ==
    IF i <= Len(s) /\ IsSpace(s[i]) THEN SkipSpace(s, i + 1) ELSE i

RECURSIVE DigitsValue(_, _, _, _)
\* the int denoted by the longest run of digits of s starting at i, with the
\* sign applied, acc being the value so far; ok is FALSE when it leaves the
\* range of int
DigitsValue(s, i, acc, neg) ==
    IF i <= Len(s) /\ IsDigit(s[i])
    THEN LET d == s[i] - 48
             limit == INT_MAX \div 10
             fits == IF neg
                     THEN acc > 0 - limit \/ (acc = 0 - limit /\ d <= 8)
                     ELSE acc < limit \/ (acc = limit /\ d <= 7)
         IN  IF fits
             THEN DigitsValue(s, i + 1, IF neg THEN acc * 10 - d ELSE acc * 10 + d, neg)
             ELSE [ok |-> FALSE, value |-> 0]
    ELSE [ok |-> TRUE, value |-> acc]

\* std::stoi: skips leading white space, takes an optional sign and the
\* longest run of digits, ignores what follows; throws std::invalid_argument
\* when there is no digit and std::out_of_range when the value does not fit.
Stoi(s) ==
    LET i == SkipSpace(s, 1)
        neg == i <= Len(s) /\ s[i] = 45
        j == IF i <= Len(s) /\ s[i] \in {43, 45} THEN i + 1 ELSE i
    IN  IF ~(j <= Len(s) /\ IsDigit(s[j])) THEN [ok |-> FALSE, value |-> 0]
        ELSE DigitsValue(s, j, 0, neg)

\* static_cast<uint16_t>(int)
ToUint16(n) == n % 65536

(***************************************************************************)
(* HeaderValueLexer: CurlSession::GetNextToken.                            *)
(* begin is the caller's cursor.  A cursor beyond last makes std::find run *)
(* off the fragment (undefined behaviour): ub is TRUE and the token is not *)
(* determined by the fragment.                                             *)
(***************************************************************************)
\* GetNextToken leaving the cursor on the separator (*begin = end)
GetNextTokenKeepsSeparator(s, begin, separator) ==
    IF begin > Len(s) + 1
    THEN [ub |-> TRUE, token |-> <<>>, begin |-> begin]
    ELSE LET end == Find(s, begin, separator)
         IN  [ub |-> FALSE, token |-> Str(s, begin, end), begin |-> end]

GetNextToken(s, begin, separator) ==
    IF begin > Len(s) + 1
    THEN [ub |-> TRUE, token |-> <<>>, begin |-> begin]
    ELSE LET end == Find(s, begin, separator)
         IN  [ub |-> FALSE, token |-> Str(s, begin, end), begin |-> end + 1]

(***************************************************************************)
(* RawResponse (azure-core).  headers is a function from lower-cased names *)
(* to values; bodyStream is "NULL" or "session".                             *)
(***************************************************************************)
EmptyHeaders == [n \in {} |-> <<>>]

RawResponse(major, minor, status, reason) ==
    [majorVersion |-> major, minorVersion |-> minor, statusCode |-> status,
     reasonPhrase |-> reason, headers |-> EmptyHeaders, bodyStream |-> "NULL"]

\* the characters RawResponse::SetHeader accepts in a header name (RFC 7230 tchar)
IsValidHeaderNameChar(c) ==
    \/ IsDigit(c)
    \/ (c >= 65 /\ c <= 90)
    \/ (c >= 97 /\ c <= 122)
    \/ c \in {33, 35, 36, 37, 38, 39, 42, 43, 45, 46, 94, 95, 96, 124, 126}

\* the map assignment of RawResponse::SetHeader: headers[name] = value
InsertHeader(headers, name, value) ==
    [n \in (DOMAIN headers) \cup {name} |-> IF n = name THEN value ELSE headers[n]]

\* RawResponse::SetHeader(name, value): rejects an invalid name, otherwise
\* inserts or overwrites
SetHeader(headers, name, value) ==
    IF \A i \in 1..Len(name) : IsValidHeaderNameChar(name[i])
    THEN [kind |-> "ok", headers |-> InsertHeader(headers, name, value)]
    ELSE [kind |-> "throw", headers |-> headers]

(***************************************************************************)
(* StatusLineParser: CurlSession::CreateHTTPResponse on the fragment s.    *)
(* kind is "ok" (response is the shell), "throw" (std::stoi threw) or "ub" *)
(* (the lexer's cursor ran past the end of the fragment).                  *)
(***************************************************************************)
CreateHTTPResponse(s) ==
    LET NoShell == RawResponse(0, 0, 0, <<>>)
        t1 == GetNextToken(s, 1 + HttpWordLen + 1, DOT)
        majorVersion == Stoi(t1.token)
        t2 == GetNextToken(s, t1.begin, SP)
        minorVersion == Stoi(t2.token)
        t3 == GetNextToken(s, t2.begin, SP)
        statusCode == Stoi(t3.token)
        t4 == GetNextToken(s, t3.begin, CR)
    IN  IF t1.ub THEN [kind |-> "ub", response |-> NoShell]
        ELSE IF ~majorVersion.ok THEN [kind |-> "throw", response |-> NoShell]
        ELSE IF t2.ub THEN [kind |-> "ub", response |-> NoShell]
        ELSE IF ~minorVersion.ok THEN [kind |-> "throw", response |-> NoShell]
        ELSE IF t3.ub THEN [kind |-> "ub", response |-> NoShell]
        ELSE IF ~statusCode.ok THEN [kind |-> "throw", response |-> NoShell]
        ELSE IF t4.ub THEN [kind |-> "ub", response |-> NoShell]
        ELSE [kind |-> "ok",
              response |-> RawResponse(ToUint16(majorVersion.value),
                                       ToUint16(minorVersion.value),
                                       statusCode.value, t4.token)]

\* the positions the cursor `start` of CreateHTTPResponse takes on the
\* fragment s: line 59, then after each GetNextToken that ran in bounds
StatusLineCursors(s) ==
    LET t1 == GetNextToken(s, 1 + HttpWordLen + 1, DOT)
        t2 == GetNextToken(s, t1.begin, SP)
        t3 == GetNextToken(s, t2.begin, SP)
        t4 == GetNextToken(s, t3.begin, CR)
    IN  <<1 + HttpWordLen + 1, t1.begin, t2.begin, t3.begin, t4.begin>>

(***************************************************************************)
(* HeaderAccumulator: CurlSession::StaticSetHeader on the fragment s.      *)
(***************************************************************************)
RECURSIVE SkipBlanks(_, _)
\* while (start < last && (*start == ' ' || *start == '\t')) ++start;
SkipBlanks(s, start) ==
    IF start < Len(s) + 1 /\ (s[start] = SP \/ s[start] = TAB)
    THEN SkipBlanks(s, start + 1)
    ELSE start

HeaderNameOf(s) == ToLower(Str(s, 1, Find(s, 1, COLON)))

HeaderValueOf(s) ==
    LET start == SkipBlanks(s, Find(s, 1, COLON) + 1)
    IN  Str(s, start, Find(s, start, CR))

\* StaticSetHeader without the ToLower() of line 98
StaticSetHeaderKeepsCase(headers, s) ==
    LET end == Find(s, 1, COLON)
    IN  IF Len(s) = 2 /\ s[1] = CR /\ s[2] = LF
        THEN [kind |-> "ok", headers |-> headers]
        ELSE IF end = Len(s) + 1
        THEN [kind |-> "throw", headers |-> headers]
        ELSE SetHeader(headers, Str(s, 1, end), HeaderValueOf(s))

\* StaticSetHeader without the terminator check of lines 86-90
StaticSetHeaderNoTerminatorCheck(headers, s) ==
    LET end == Find(s, 1, COLON)
    IN  IF end = Len(s) + 1
        THEN [kind |-> "throw", headers |-> headers]
        ELSE SetHeader(headers, HeaderNameOf(s), HeaderValueOf(s))

\* StaticSetHeader returning on a fragment without ':' instead of throwing
StaticSetHeaderIgnoresMissingDelimiter(headers, s) ==
    LET end == Find(s, 1, COLON)
    IN  IF Len(s) = 2 /\ s[1] = CR /\ s[2] = LF
        THEN [kind |-> "ok", headers |-> headers]
        ELSE IF end = Len(s) + 1
        THEN [kind |-> "ok", headers |-> headers]
        ELSE SetHeader(headers, HeaderNameOf(s), HeaderValueOf(s))

StaticSetHeader(headers, s) ==
    LET end == Find(s, 1, COLON)
    IN  IF Len(s) = 2 /\ s[1] = CR /\ s[2] = LF
        THEN [kind |-> "ok", headers |-> headers]
        ELSE IF end = Len(s) + 1
        THEN [kind |-> "throw", headers |-> headers]
        ELSE SetHeader(headers, HeaderNameOf(s), HeaderValueOf(s))

(***************************************************************************)
(* Inputs of one exchange.                                                 *)
(***************************************************************************)
Methods == {"GET", "HEAD", "DELETE", "PATCH", "POST", "PUT"}

\* request header collections, as the sorted name/value pairs of GetHeaders():
\* {} and {a: 1, b: 22}
RequestHeaderSets ==
    { <<>>,
      << <<(<<97>>), (<<49>>)>>, <<(<<98>>), (<<50,50>>)>> >> }

\* contents of the request body stream: "" and "h\0i"
RequestBodies == { <<>>, <<104,0,105>> }

\* Only POST and PUT read the body stream; the other methods come with the
\* empty one.
Requests ==
    {r \in [method : Methods, headers : RequestHeaderSets, body : RequestBodies] :
        r.method \notin {"POST", "PUT"} => r.body = <<>>}

\* first fragments libcurl may deliver:
\* "HTTP/1.1 200 OK\r\n", "HTTP/x.1 200 OK\r\n", "HTTP"
StatusLines ==
    { <<72,84,84,80,47,49,46,49,32,50,48,48,32,79,75,13,10>>,
      <<72,84,84,80,47,120,46,49,32,50,48,48,32,79,75,13,10>>,
      <<72,84,84,80>> }

RECURSIVE Decimal(_)
\* the decimal digits of a natural number, as the wire carries it
Decimal(n) ==
    IF n < 10 THEN <<48 + n>> ELSE Decimal(n \div 10) \o <<48 + (n % 10)>>

\* the status line HTTP/<major>.<minor> <code> <reason>\r\n
StatusLine(major, minor, code, reason) ==
    <<72,84,84,80,47>> \o Decimal(major) \o <<DOT>> \o Decimal(minor) \o <<SP>>
        \o Decimal(code) \o <<SP>> \o reason \o <<CR, LF>>

MajorVersions == {1, 2}
MinorVersions == {0, 1}
StatusCodes == {100, 200, 404}
\* "", "OK", "Not Found"
ReasonPhrases == { <<>>, <<79,75>>, <<78,111,116,32,70,111,117,110,100>> }

WellFormedStatusLines ==
    {StatusLine(major, minor, code, reason) :
        major \in MajorVersions, minor \in MinorVersions,
        code \in StatusCodes, reason \in ReasonPhrases}

\* malformed first fragments: "HTTP" (shorter than the prefix),
\* "HTTP/11 200 OK\r\n" (no '.'), "HTTP/1.1200 OK\r\n" (no first ' '),
\* "HTTP/1.1 200\r\n" (no second ' '), "HTTP/1.1 200 OK\n" (no '\r'),
\* "HTTP/x.1 200 OK\r\n" (version not numeric),
\* "HTTP/1.1 abc OK\r\n" (status not numeric)
MalformedStatusLines ==
    { <<72,84,84,80>>,
      <<72,84,84,80,47,49,49,32,50,48,48,32,79,75,13,10>>,
      <<72,84,84,80,47,49,46,49,50,48,48,32,79,75,13,10>>,
      <<72,84,84,80,47,49,46,49,32,50,48,48,13,10>>,
      <<72,84,84,80,47,49,46,49,32,50,48,48,32,79,75,10>>,
      <<72,84,84,80,47,120,46,49,32,50,48,48,32,79,75,13,10>>,
      <<72,84,84,80,47,49,46,49,32,97,98,99,32,79,75,13,10>> }

\* header lines libcurl may deliver:
\* "Transfer-Encoding: chunked\r\n", "TRANSFER-ENCODING:identity\r\n",
\* "x-a:\t 2\r\n", "\r\n", "garbage\r\n"
HeaderLines ==
    { <<84,114,97,110,115,102,101,114,45,69,110,99,111,100,105,110,103,58,32,99,104,117,110,107,101,100,13,10>>,
      <<84,82,65,78,83,70,69,82,45,69,78,67,79,68,73,78,71,58,105,100,101,110,116,105,116,121,13,10>>,
      <<120,45,97,58,9,32,50,13,10>>,
      <<13,10>>,
      <<103,97,114,98,97,103,101,13,10>> }

\* the status line of a further response of the same transfer: "HTTP/1.1 200 OK\r\n"
LaterStatusLines == { <<72,84,84,80,47,49,46,49,32,50,48,48,32,79,75,13,10>> }

\* body fragments libcurl may deliver: "hi", "!"
BodyFragments == { <<104,105>>, <<33>> }

\* results of curl_easy_setopt and of curl_easy_perform
SetoptCodes == {"CURLE_OK", "CURLE_OUT_OF_MEMORY"}
PerformCodes == {"CURLE_OK", "CURLE_COULDNT_CONNECT"}

\* the null value of a unique_ptr / raw pointer to an object
nullptr == [null |-> TRUE]

(***************************************************************************)
(* State.                                                                  *)
(***************************************************************************)
VARIABLES
    request,          \* the caller's Request
    cancelled,        \* whether the caller's Context is cancelled
    pc,               \* position of MyTransport::Send / CurlSession::Send
    session,          \* "none", "alive" or "destroyed": the CurlSession object
    m_curlHandle,     \* "NULL" or "handle"
    m_headerHandle,   \* "NULL" or "list": head of the curl_slist
    m_responseData,   \* receive buffer
    m_sendBuffer,     \* POST send buffer
    m_response,       \* nullptr or the RawResponse shell
    m_responseStream, \* nullptr or the MemoryBodyStream over m_responseData
    m_chunked,
    curl,             \* options set on the easy handle
    slist,            \* entries of the curl_slist behind "list"
    calls,            \* libcurl functions called so far, in order
    hdrIdx,           \* loop position of the request-header loop
    hdrLog,           \* fragments the header callback was given, in order
    bodyLog,          \* fragments the data-receive callback was given, in order
    performResult,    \* result of curl_easy_perform, "none" before it returns
    bodyOffset,       \* read position of the request body stream
    uploaded,         \* bytes UploadData has produced so far
    lastUploadRet,    \* last value UploadData returned, -1 before the first
    response,         \* the unique_ptr<RawResponse> of MyTransport::Send / the caller
    callerResult,     \* "pending", "response", "null", "exception" or "crash"
    error             \* kind of the exception the caller got

vars == <<request, cancelled, pc, session, m_curlHandle, m_headerHandle,
          m_responseData, m_sendBuffer, m_response, m_responseStream, m_chunked,
          curl, slist, calls, hdrIdx, hdrLog, bodyLog, performResult,
          bodyOffset, uploaded, lastUploadRet, response, callerResult, error>>

inputVars == <<request, cancelled>>
memberVars == <<m_curlHandle, m_headerHandle, m_responseData, m_sendBuffer,
                m_response, m_responseStream, m_chunked>>
transferVars == <<hdrLog, bodyLog, performResult>>
uploadVars == <<bodyOffset, uploaded, lastUploadRet>>
callerVars == <<response, callerResult, error>>

NoOptions ==
    [CURLOPT_URL |-> "NULL", CURLOPT_PORT |-> 0, CURLOPT_HTTPHEADER |-> "NULL",
     CURLOPT_HEADERFUNCTION |-> "NULL", CURLOPT_HEADERDATA |-> "NULL",
     CURLOPT_WRITEFUNCTION |-> "NULL", CURLOPT_WRITEDATA |-> "NULL",
     CURLOPT_CUSTOMREQUEST |-> "NULL", CURLOPT_NOBODY |-> 0,
     CURLOPT_POSTFIELDS |-> "NULL", CURLOPT_POSTFIELDSIZE |-> -1,
     CURLOPT_UPLOAD |-> 0, CURLOPT_READFUNCTION |-> "NULL",
     CURLOPT_READDATA |-> "NULL", CURLOPT_INFILESIZE |-> -1]

Init ==
    /\ request \in Requests
    /\ cancelled \in BOOLEAN
    /\ pc = "new"
    /\ session = "none"
    /\ m_curlHandle = "NULL"
    /\ m_headerHandle = "NULL"
    /\ m_responseData = <<>>
    /\ m_sendBuffer = <<>>
    /\ m_response = nullptr
    /\ m_responseStream = nullptr
    /\ m_chunked = FALSE
    /\ curl = NoOptions
    /\ slist = <<>>
    /\ calls = <<>>
    /\ hdrIdx = 1
    /\ hdrLog = <<>>
    /\ bodyLog = <<>>
    /\ performResult = "none"
    /\ bodyOffset = 0
    /\ uploaded = <<>>
    /\ lastUploadRet = -1
    /\ response = nullptr
    /\ callerResult = "pending"
    /\ error = "none"

(***************************************************************************)
(* Leaving the exchange.                                                   *)
(***************************************************************************)
\* ~CurlSession: the calls after the destructor ran, c being the calls before
DestructorCalls(c) ==
    IF m_curlHandle # "NULL" THEN Append(c, "curl_easy_cleanup") ELSE c

\* An exception leaves CurlSession::Send and MyTransport::Send: the local
\* unique_ptr<CurlSession> is destroyed during unwinding and the caller gets
\* the exception.  c is the calls made up to the throw.
Throw(kind, c) ==
    /\ pc' = "done"
    /\ session' = "destroyed"
    /\ calls' = DestructorCalls(c)
    /\ callerResult' = "exception"
    /\ error' = kind

\* The process dies (segmentation fault, std::terminate): nothing runs after.
Crash ==
    /\ pc' = "done"
    /\ callerResult' = "crash"
    /\ UNCHANGED <<session, calls, error>>

(***************************************************************************)
(* MyTransport::Send, line 360: std::make_unique<CurlSession>() runs the   *)
(* constructor, which acquires the easy handle.                            *)
(***************************************************************************)
NewSession ==
    /\ pc = "new"
    /\ \E handle \in {"handle", "NULL"} :
         /\ calls' = Append(calls, "curl_easy_init")
         /\ IF handle = "NULL"
            THEN \* the constructor throws: no session object exists
                 /\ pc' = "done"
                 /\ callerResult' = "exception"
                 /\ error' = "ResourceError"
                 /\ UNCHANGED <<session, m_curlHandle>>
            ELSE /\ pc' = "cancel"
                 /\ session' = "alive"
                 /\ m_curlHandle' = handle
                 /\ UNCHANGED <<callerResult, error>>
    /\ UNCHANGED <<inputVars, m_headerHandle, m_responseData, m_sendBuffer,
                   m_response, m_responseStream, m_chunked, curl, slist, hdrIdx,
                   transferVars, uploadVars, response>>

\* Send without the cancellation check of line 182
ThrowIfCancelledSkipped ==
    /\ pc = "cancel"
    /\ pc' = "CURLOPT_URL"
    /\ UNCHANGED <<inputVars, session, memberVars, curl, slist, calls, hdrIdx,
                   transferVars, uploadVars, callerVars>>

(***************************************************************************)
(* CurlSession::Send, line 182: context.ThrowIfCancelled().                *)
(***************************************************************************)
ThrowIfCancelled ==
    /\ pc = "cancel"
    /\ IF cancelled
       THEN Throw("OperationCancelled", calls)
       ELSE /\ pc' = "CURLOPT_URL"
            /\ UNCHANGED <<session, calls, callerResult, error>>
    /\ UNCHANGED <<inputVars, memberVars, curl, slist, hdrIdx, transferVars,
                   uploadVars, response>>

\* a curl_easy_setopt whose result Send does not look at
EasySetoptUnchecked(at, option, value, next) ==
    /\ pc = at
    /\ \E operationResult \in SetoptCodes :
         /\ curl' = IF operationResult = "CURLE_OK"
                    THEN [curl EXCEPT ![option] = value] ELSE curl
         /\ calls' = Append(calls, option)
         /\ pc' = next
         /\ UNCHANGED <<session, callerResult, error>>
    /\ UNCHANGED <<inputVars, memberVars, slist, hdrIdx, transferVars,
                   uploadVars, response>>

(***************************************************************************)
(* One curl_easy_setopt(m_curlHandle, option, value) of Send followed by   *)
(* its result check: at position `at`, moving to `next` on CURLE_OK.       *)
(***************************************************************************)
EasySetopt(at, option, value, next) ==
    /\ pc = at
    /\ \E operationResult \in SetoptCodes :
         IF operationResult # "CURLE_OK"
         THEN /\ Throw("ConfigurationError", Append(calls, option))
              /\ UNCHANGED curl
         ELSE /\ curl' = [curl EXCEPT ![option] = value]
              /\ calls' = Append(calls, option)
              /\ pc' = next
              /\ UNCHANGED <<session, callerResult, error>>
    /\ UNCHANGED <<inputVars, memberVars, slist, hdrIdx, transferVars,
                   uploadVars, response>>

\* lines 192-196
SetUrl == EasySetopt("CURLOPT_URL", "CURLOPT_URL", "url", "CURLOPT_PORT")

\* lines 198-202
SetPort == EasySetopt("CURLOPT_PORT", "CURLOPT_PORT", 443, "headers")

(***************************************************************************)
(* curl_slist_append(list, entry): NULL on failure; otherwise the head of  *)
(* the list, a new list when `list` is NULL and the same head when not.    *)
(* The entry is linked at the end of the list.                             *)
(***************************************************************************)
SlistAppend(at, entry, kind, next) ==
    /\ pc = at
    /\ \E newHandle \in {"list", "NULL"} :
         IF newHandle = "NULL"
         THEN /\ Throw(kind, Append(calls, "curl_slist_append"))
              /\ UNCHANGED <<slist, m_headerHandle, hdrIdx>>
         ELSE /\ slist' = Append(slist, entry)
              /\ m_headerHandle' = newHandle
              /\ calls' = Append(calls, "curl_slist_append")
              /\ hdrIdx' = IF at = "headers" THEN hdrIdx + 1 ELSE hdrIdx
              /\ pc' = next
              /\ UNCHANGED <<session, callerResult, error>>
    /\ UNCHANGED <<inputVars, m_curlHandle, m_responseData, m_sendBuffer,
                   m_response, m_responseStream, m_chunked, curl, transferVars,
                   uploadVars, response>>

\* header.first + ":" + header.second
SerializeHeader(header) == header[1] \o <<COLON>> \o header[2]

\* lines 205-215: one iteration of the loop over the request headers
AppendHeader ==
    /\ hdrIdx <= Len(request.headers)
    /\ SlistAppend("headers", SerializeHeader(request.headers[hdrIdx]),
                   "ResourceError",
                   IF hdrIdx = Len(request.headers) THEN "CURLOPT_HTTPHEADER"
                   ELSE "headers")

\* line 205: headers.size() == 0, the block is skipped
NoHeaders ==
    /\ pc = "headers"
    /\ Len(request.headers) = 0
    /\ pc' = "CURLOPT_HEADERFUNCTION"
    /\ UNCHANGED <<inputVars, session, memberVars, curl, slist, calls, hdrIdx,
                   transferVars, uploadVars, callerVars>>

\* lines 217-221
SetHttpHeader ==
    EasySetopt("CURLOPT_HTTPHEADER", "CURLOPT_HTTPHEADER", m_headerHandle,
               "CURLOPT_HEADERFUNCTION")

\* lines 226-230
SetHeaderFunction ==
    EasySetopt("CURLOPT_HEADERFUNCTION", "CURLOPT_HEADERFUNCTION",
               "ReceiveInitialResponse", "CURLOPT_HEADERDATA")

\* lines 231-235
SetHeaderData ==
    EasySetopt("CURLOPT_HEADERDATA", "CURLOPT_HEADERDATA", "m_response",
               "CURLOPT_WRITEFUNCTION")

\* lines 238-242
SetWriteFunction ==
    EasySetopt("CURLOPT_WRITEFUNCTION", "CURLOPT_WRITEFUNCTION", "ReceiveData",
               "CURLOPT_WRITEDATA")

\* lines 243-247
SetWriteData ==
    EasySetopt("CURLOPT_WRITEDATA", "CURLOPT_WRITEDATA", "m_responseData",
               "method")

(***************************************************************************)
(* RequestDispatcher: the method branches of Send, lines 250-331.          *)
(***************************************************************************)
\* GET matches no branch
MethodGet ==
    /\ pc = "method"
    /\ request.method = "GET"
    /\ pc' = "curl_easy_perform"
    /\ UNCHANGED <<inputVars, session, memberVars, curl, slist, calls, hdrIdx,
                   transferVars, uploadVars, callerVars>>

\* lines 251-258
MethodDelete ==
    /\ request.method = "DELETE"
    /\ EasySetopt("method", "CURLOPT_CUSTOMREQUEST", "DELETE", "curl_easy_perform")

\* lines 259-266
MethodPatch ==
    /\ request.method = "PATCH"
    /\ EasySetopt("method", "CURLOPT_CUSTOMREQUEST", "PATCH", "curl_easy_perform")

\* the HEAD branch overriding the verb instead of suppressing the body
MethodHeadCustomRequest ==
    /\ request.method = "HEAD"
    /\ EasySetopt("method", "CURLOPT_CUSTOMREQUEST", "HEAD", "curl_easy_perform")

\* lines 267-274
MethodHead ==
    /\ request.method = "HEAD"
    /\ EasySetopt("method", "CURLOPT_NOBODY", 1, "curl_easy_perform")

\* lines 279-284
PostExpect ==
    /\ request.method = "POST"
    /\ SlistAppend("method", ExpectHeader, "ResourceError", "CURLOPT_POSTFIELDS")

\* BodyStream::ReadToEnd(): the bytes from the read position to the end
ReadToEnd(body, offset) == SubSeq(body, offset + 1, Len(body))

\* lines 286-292: the send buffer is filled, NUL-terminated and handed over
PostFields ==
    /\ pc = "CURLOPT_POSTFIELDS"
    /\ m_sendBuffer' = Append(ReadToEnd(request.body, bodyOffset), 0)
    /\ bodyOffset' = Len(request.body)
    /\ \E operationResult \in SetoptCodes :
         IF operationResult # "CURLE_OK"
         THEN /\ Throw("ConfigurationError", Append(calls, "CURLOPT_POSTFIELDS"))
              /\ UNCHANGED curl
         ELSE /\ curl' = [curl EXCEPT !["CURLOPT_POSTFIELDS"] = "m_sendBuffer"]
              /\ calls' = Append(calls, "CURLOPT_POSTFIELDS")
              /\ pc' = "curl_easy_perform"
              /\ UNCHANGED <<session, callerResult, error>>
    /\ UNCHANGED <<inputVars, m_curlHandle, m_headerHandle, m_responseData,
                   m_response, m_responseStream, m_chunked, slist, hdrIdx,
                   transferVars, uploaded, lastUploadRet, response>>

\* strlen(buffer): the bytes before the first NUL
StrLen(buffer) == Find(buffer, 1, 0) - 1

\* The bytes the backend sends as the POST body for the buffer registered at
\* line 288: with CURLOPT_POSTFIELDSIZE left at -1, which Send never sets,
\* libcurl measures the buffer with strlen; otherwise it takes that many bytes.
PostFieldsBytes ==
    IF curl["CURLOPT_POSTFIELDSIZE"] = -1
    THEN SubSeq(m_sendBuffer, 1, StrLen(m_sendBuffer))
    ELSE SubSeq(m_sendBuffer, 1, curl["CURLOPT_POSTFIELDSIZE"])

\* lines 301-306
PutExpect ==
    /\ request.method = "PUT"
    /\ SlistAppend("method", ExpectHeader, "TransportException", "CURLOPT_UPLOAD")

\* lines 308-312
PutUpload ==
    EasySetopt("CURLOPT_UPLOAD", "CURLOPT_UPLOAD", 1, "CURLOPT_READFUNCTION")

\* lines 314-318
PutReadFunction ==
    EasySetopt("CURLOPT_READFUNCTION", "CURLOPT_READFUNCTION", "UploadData",
               "CURLOPT_READDATA")

\* lines 319-324
PutReadData ==
    EasySetopt("CURLOPT_READDATA", "CURLOPT_READDATA", "uploadStream",
               "CURLOPT_INFILESIZE")

\* BodyStream::Length() of the request body stream
UploadStreamLength == Len(request.body)

\* the PUT branch declaring the size of a NUL-terminated buffer, as POST builds
PutInFileSizeWithTerminator ==
    EasySetopt("CURLOPT_INFILESIZE", "CURLOPT_INFILESIZE", UploadStreamLength + 1,
               "curl_easy_perform")

\* lines 326-330
PutInFileSize ==
    EasySetopt("CURLOPT_INFILESIZE", "CURLOPT_INFILESIZE", UploadStreamLength,
               "curl_easy_perform")

(***************************************************************************)
(* The transfer: curl_easy_perform, line 334, and the callbacks libcurl    *)
(* makes while it runs.                                                    *)
(***************************************************************************)
\* the transfer started with the body stream already wrapped round the
\* receive buffer, line 338 taken before line 334
BeginPerformWrapsBuffer ==
    /\ pc = "curl_easy_perform"
    /\ pc' = "perform"
    /\ calls' = Append(calls, "curl_easy_perform")
    /\ m_responseStream' = [length |-> Len(m_responseData), offset |-> 0]
    /\ UNCHANGED <<inputVars, session, m_curlHandle, m_headerHandle,
                   m_responseData, m_sendBuffer, m_response, m_chunked, curl,
                   slist, hdrIdx, transferVars, uploadVars, callerVars>>

BeginPerform ==
    /\ pc = "curl_easy_perform"
    /\ pc' = "perform"
    /\ calls' = Append(calls, "curl_easy_perform")
    /\ UNCHANGED <<inputVars, session, memberVars, curl, slist, hdrIdx,
                   transferVars, uploadVars, callerVars>>

\* An exception thrown inside a callback has to cross libcurl's C frames, which
\* is undefined: it either unwinds into Send's caller or ends the process.
CallbackThrow(kind) ==
    \/ Throw(kind, calls)
    \/ Crash

\* what the status-line parser can leave behind once its cursor has run past
\* the fragment: a shell built from bytes that are not the fragment's
GarbageShells == { RawResponse(0, 0, 0, <<>>) }

\* libcurl sends the request before it reads the response: the header and
\* data callbacks start once the upload, if there is one, is over
UploadOver == curl["CURLOPT_UPLOAD"] = 0 \/ lastUploadRet = 0

\* what libcurl can hand the header callback next: the first fragment of a
\* transfer is a status line (possibly malformed), the later ones are header
\* lines, the terminator, or the status line of a further response
DeliverableFragments ==
    IF hdrLog = <<>> THEN StatusLines ELSE HeaderLines \cup LaterStatusLines

\* ReceiveInitialResponse, lines 112-130, on the fragment `contents`
ReceiveInitialResponse(contents) ==
    /\ pc = "perform"
    /\ curl["CURLOPT_HEADERFUNCTION"] = "ReceiveInitialResponse"
    /\ UploadOver
    /\ Len(hdrLog) < MaxHdrFrags
    /\ hdrLog' = Append(hdrLog, contents)
    /\ IF m_response = nullptr
       THEN LET r == CreateHTTPResponse(contents)
            IN  CASE r.kind = "ok" ->
                       /\ m_response' = r.response
                       /\ UNCHANGED <<pc, session, calls, callerResult, error>>
                  [] r.kind = "throw" ->
                       /\ CallbackThrow("ParseError")
                       /\ UNCHANGED m_response
                  [] r.kind = "ub" ->
                       \/ /\ CallbackThrow("ParseError")
                          /\ UNCHANGED m_response
                       \/ /\ m_response' \in GarbageShells
                          /\ UNCHANGED <<pc, session, calls, callerResult, error>>
       ELSE LET r == StaticSetHeader(m_response.headers, contents)
            IN  IF r.kind = "ok"
                THEN /\ m_response' = [m_response EXCEPT !.headers = r.headers]
                     /\ UNCHANGED <<pc, session, calls, callerResult, error>>
                ELSE /\ CallbackThrow("ParseError")
                     /\ UNCHANGED m_response
    /\ UNCHANGED <<inputVars, m_curlHandle, m_headerHandle, m_responseData,
                   m_sendBuffer, m_responseStream, m_chunked, curl, slist,
                   hdrIdx, bodyLog, performResult, uploadVars, response>>

\* expectedSize, line 134, which is what ReceiveData returns at line 141
ReceiveDataReturn(contents) == Len(contents)

\* ReceiveData storing the fragment in place of the buffer's contents
ReceiveDataOverwrites(contents) ==
    /\ pc = "perform"
    /\ curl["CURLOPT_WRITEFUNCTION"] = "ReceiveData"
    /\ UploadOver
    /\ curl["CURLOPT_NOBODY"] = 0
    /\ Len(bodyLog) < MaxBodyFrags
    /\ m_responseData' = contents
    /\ bodyLog' = Append(bodyLog, contents)
    /\ UNCHANGED <<inputVars, pc, session, m_curlHandle, m_headerHandle,
                   m_sendBuffer, m_response, m_responseStream, m_chunked, curl,
                   slist, calls, hdrIdx, hdrLog, performResult, uploadVars,
                   callerVars>>

\* ReceiveData, lines 132-142, on the fragment `contents`.  libcurl delivers
\* no body once CURLOPT_NOBODY is set, and ends the transfer with
\* CURLE_WRITE_ERROR when the callback returns another number than the size
\* of the fragment.
ReceiveData(contents) ==
    /\ pc = "perform"
    /\ curl["CURLOPT_WRITEFUNCTION"] = "ReceiveData"
    /\ UploadOver
    /\ curl["CURLOPT_NOBODY"] = 0
    /\ Len(bodyLog) < MaxBodyFrags
    /\ m_responseData' = m_responseData \o contents
    /\ bodyLog' = Append(bodyLog, contents)
    /\ IF ReceiveDataReturn(contents) = Len(contents)
       THEN UNCHANGED <<pc, performResult>>
       ELSE pc' = "post" /\ performResult' = "CURLE_WRITE_ERROR"
    /\ UNCHANGED <<inputVars, session, m_curlHandle, m_headerHandle,
                   m_sendBuffer, m_response, m_responseStream, m_chunked, curl,
                   slist, calls, hdrIdx, hdrLog, uploadVars, callerVars>>

Min(a, b) == IF a < b THEN a ELSE b

\* BodyStream::Read(buffer, count) of the request body stream: the number of
\* bytes copied, at most count and at most what is left
UploadStreamRead(count) == Min(count, Len(request.body) - bodyOffset)

\* UploadData, lines 144-158, with a destination of destSize bytes.  libcurl
\* stops reading once the callback has returned 0.
UploadData(destSize) ==
    /\ pc = "perform"
    /\ curl["CURLOPT_UPLOAD"] = 1
    /\ curl["CURLOPT_READFUNCTION"] = "UploadData"
    /\ lastUploadRet # 0
    /\ IF destSize < 1
       THEN /\ CallbackThrow("UploadError")
            /\ UNCHANGED uploadVars
       ELSE LET n == UploadStreamRead(destSize)
            IN  /\ uploaded' = uploaded \o SubSeq(request.body, bodyOffset + 1, bodyOffset + n)
                /\ bodyOffset' = bodyOffset + n
                /\ lastUploadRet' = n
                /\ UNCHANGED <<pc, session, calls, callerResult, error>>
    /\ UNCHANGED <<inputVars, memberVars, curl, slist, hdrIdx, transferVars,
                   response>>

\* curl_easy_perform returns; line 334 stores the result and nothing reads it
PerformReturn ==
    /\ pc = "perform"
    /\ performResult' \in PerformCodes
    /\ pc' = "post"
    /\ UNCHANGED <<inputVars, session, memberVars, curl, slist, calls, hdrIdx,
                   hdrLog, bodyLog, uploadVars, callerVars>>

(***************************************************************************)
(* After the transfer: CurlSession::Send lines 338-350 and                 *)
(* MyTransport::Send lines 362-363.                                        *)
(***************************************************************************)
\* MemoryBodyStream(m_responseData): a cursor over the vector's storage
MemoryBodyStream(data) == [length |-> Len(data), offset |-> 0]

\* responseHeaders.find(name) on the case-insensitive map: the matching keys
HeadersFind(headers, name) ==
    {n \in DOMAIN headers : ToLower(n) = ToLower(name)}

\* FramingResolver looking the header up under its mixed-case wire name
\* "Transfer-Encoding" with an exact comparison
FramingResolverCaseSensitive(headers, chunked) ==
    LET wireName == <<84,114,97,110,115,102,101,114,45,69,110,99,111,100,105,110,103>>
        found == {n \in DOMAIN headers : n = wireName}
    IN  IF found # {}
        THEN Contains(headers[CHOOSE n \in found : TRUE], ChunkedToken)
        ELSE chunked

\* FramingResolver, lines 341-347: the value of m_chunked after the lookup
FramingResolver(headers, chunked) ==
    LET found == HeadersFind(headers, TransferEncodingName)
    IN  IF found # {}
        THEN Contains(headers[CHOOSE n \in found : TRUE], ChunkedToken)
        ELSE chunked

\* lines 338-350.  With no shell (m_response is null) line 341 dereferences a
\* null pointer: the process dies, or the lookup reads whatever is there and
\* Send returns the null pointer.
PostTransfer ==
    /\ pc = "post"
    /\ m_responseStream' = MemoryBodyStream(m_responseData)
    /\ IF m_response = nullptr
       THEN \/ /\ Crash
               /\ UNCHANGED <<m_chunked, m_response, response>>
            \/ /\ m_chunked' \in BOOLEAN
               /\ pc' = "attach"
               /\ UNCHANGED <<m_response, response, session, calls,
                              callerResult, error>>
       ELSE /\ m_chunked' = FramingResolver(m_response.headers, m_chunked)
            /\ response' = m_response
            /\ m_response' = nullptr
            /\ pc' = "attach"
            /\ UNCHANGED <<session, calls, callerResult, error>>
    /\ UNCHANGED <<inputVars, m_curlHandle, m_headerHandle, m_responseData,
                   m_sendBuffer, curl, slist, hdrIdx, transferVars, uploadVars>>

\* MyTransport::Send returning the response without line 362: the local
\* session is destroyed when Send returns
AttachAndReturnUnattached ==
    /\ pc = "attach"
    /\ response # nullptr
    /\ callerResult' = "response"
    /\ pc' = "done"
    /\ session' = "destroyed"
    /\ calls' = DestructorCalls(calls)
    /\ UNCHANGED <<inputVars, memberVars, curl, slist, hdrIdx, transferVars,
                   uploadVars, response, error>>

\* lines 362-363: the session becomes the response's body stream and the
\* response goes to the caller.  On a null response SetBodyStream is a call
\* through a null pointer: the process dies, or the call goes nowhere, the
\* session moved into its argument is destroyed and the caller gets null.
AttachAndReturn ==
    /\ pc = "attach"
    /\ IF response = nullptr
       THEN \/ /\ Crash
               /\ UNCHANGED response
            \/ /\ pc' = "done"
               /\ session' = "destroyed"
               /\ calls' = DestructorCalls(calls)
               /\ callerResult' = "null"
               /\ UNCHANGED <<response, error>>
       ELSE /\ response' = [response EXCEPT !.bodyStream = "session"]
            /\ callerResult' = "response"
            /\ pc' = "done"
            /\ UNCHANGED <<session, calls, error>>
    /\ UNCHANGED <<inputVars, memberVars, curl, slist, hdrIdx, transferVars,
                   uploadVars>>

(***************************************************************************)
(* The caller's use of the response body stream (the session): OnRead,     *)
(* Length and Rewind, lines 25-35, delegating to the MemoryBodyStream.     *)
(***************************************************************************)
\* MemoryBodyStream::OnRead(buffer, count): the stream after the read
StreamAfterRead(stream, count) ==
    [stream EXCEPT !.offset = stream.offset + Min(count, stream.length - stream.offset)]

\* the bytes MemoryBodyStream::OnRead(buffer, count) copies out of data
StreamReadBytes(stream, data, count) ==
    SubSeq(data, stream.offset + 1,
           stream.offset + Min(count, stream.length - stream.offset))

\* a Rewind() that leaves the cursor where it is
StreamRewindKeepsOffset(stream) == stream

\* MemoryBodyStream::Rewind()
StreamRewind(stream) == [stream EXCEPT !.offset = 0]

\* CurlSession::Length(), lines 30-33
Length == IF m_chunked THEN UnknownLength ELSE m_responseStream.length

CallerHoldsBody ==
    /\ callerResult = "response"
    /\ response # nullptr
    /\ response.bodyStream = "session"

\* CurlSession::OnRead, lines 25-28
OnRead(count) ==
    /\ CallerHoldsBody
    /\ m_responseStream' = StreamAfterRead(m_responseStream, count)
    /\ UNCHANGED <<inputVars, pc, session, m_curlHandle, m_headerHandle,
                   m_responseData, m_sendBuffer, m_response, m_chunked, curl,
                   slist, calls, hdrIdx, transferVars, uploadVars, response,
                   callerResult, error>>

\* CurlSession::Rewind, line 35
Rewind ==
    /\ CallerHoldsBody
    /\ m_responseStream' = StreamRewind(m_responseStream)
    /\ UNCHANGED <<inputVars, pc, session, m_curlHandle, m_headerHandle,
                   m_responseData, m_sendBuffer, m_response, m_chunked, curl,
                   slist, calls, hdrIdx, transferVars, uploadVars, callerVars>>

\* The caller drops the Response: its body stream, the session, is destroyed.
DestroyResponse ==
    /\ callerResult = "response"
    /\ callerResult' = "released"
    /\ response' = nullptr
    /\ session' = "destroyed"
    /\ calls' = DestructorCalls(calls)
    /\ UNCHANGED <<inputVars, pc, memberVars, curl, slist, hdrIdx,
                   transferVars, uploadVars, error>>

(***************************************************************************)
(* Specification.                                                          *)
(***************************************************************************)
Next ==
    \/ NewSession
    \/ ThrowIfCancelled
    \/ SetUrl
    \/ SetPort
    \/ AppendHeader
    \/ NoHeaders
    \/ SetHttpHeader
    \/ SetHeaderFunction
    \/ SetHeaderData
    \/ SetWriteFunction
    \/ SetWriteData
    \/ MethodGet
    \/ MethodDelete
    \/ MethodPatch
    \/ MethodHead
    \/ PostExpect
    \/ PostFields
    \/ PutExpect
    \/ PutUpload
    \/ PutReadFunction
    \/ PutReadData
    \/ PutInFileSize
    \/ BeginPerform
    \/ \E contents \in DeliverableFragments : ReceiveInitialResponse(contents)
    \/ \E contents \in BodyFragments : ReceiveData(contents)
    \/ \E destSize \in 0..MaxCap : UploadData(destSize)
    \/ PerformReturn
    \/ PostTransfer
    \/ AttachAndReturn
    \/ \E count \in 1..MaxRead : OnRead(count)
    \/ Rewind
    \/ DestroyResponse

Spec == Init /\ [][Next]_vars

\* the backend keeps calling the upload callback while the upload is not over
UploadSpec == Spec /\ WF_vars(\E destSize \in 1..MaxCap : UploadData(destSize))

(***************************************************************************)
(* The exchange of a GET request without headers, from the construction of *)
(* the session to the return of Send, the first header fragment being any  *)
(* well-formed or malformed status line: the specification under which the *)
(* status-line parser is examined.                                         *)
(***************************************************************************)
ParserInit ==
    /\ Init
    /\ request = [method |-> "GET", headers |-> <<>>, body |-> <<>>]

ParserFragments ==
    IF hdrLog = <<>> THEN WellFormedStatusLines \cup MalformedStatusLines
    ELSE HeaderLines \cup LaterStatusLines

ParserNext ==
    \/ NewSession
    \/ ThrowIfCancelled
    \/ SetUrl
    \/ SetPort
    \/ NoHeaders
    \/ SetHeaderFunction
    \/ SetHeaderData
    \/ SetWriteFunction
    \/ SetWriteData
    \/ MethodGet
    \/ BeginPerform
    \/ \E contents \in ParserFragments : ReceiveInitialResponse(contents)
    \/ PerformReturn
    \/ PostTransfer
    \/ AttachAndReturn

ParserSpec == ParserInit /\ [][ParserNext]_vars

(***************************************************************************)
(* Helpers of the properties.                                              *)
(***************************************************************************)
Count(seq, x) == Cardinality({i \in 1..Len(seq) : seq[i] = x})

RECURSIVE Flatten(_)
\* the concatenation of the fragments of a log
Flatten(log) == IF log = <<>> THEN <<>> ELSE Head(log) \o Flatten(Tail(log))

RECURSIVE ReadAll(_, _, _)
\* the bytes produced by calling Read with `count` until it returns 0
ReadAll(stream, data, count) ==
    IF Min(count, stream.length - stream.offset) = 0 THEN <<>>
    ELSE StreamReadBytes(stream, data, count)
         \o ReadAll(StreamAfterRead(stream, count), data, count)

IsPrefix(a, b) == Len(a) <= Len(b) /\ SubSeq(b, 1, Len(a)) = a

\* the Response shell, wherever it is held at the moment
Shell == IF m_response # nullptr THEN m_response ELSE response

\* the fragments the header accumulator was given and that name a header
NamedFragments ==
    {i \in 2..Len(hdrLog) :
        /\ ~(Len(hdrLog[i]) = 2 /\ hdrLog[i][1] = CR /\ hdrLog[i][2] = LF)
        /\ Find(hdrLog[i], 1, COLON) <= Len(hdrLog[i])}

\* the list registered with the backend through CURLOPT_HTTPHEADER
RegisteredHeaderList ==
    IF curl["CURLOPT_HTTPHEADER"] = "NULL" THEN <<>> ELSE slist

TransferFailed == performResult \notin {"none", "CURLE_OK"}

(***************************************************************************)
(* C1.  When curl_easy_perform reports a non-success result, Send fails    *)
(* and the caller gets no Response, whatever was delivered before the      *)
(* failure; stated for the transfers that delivered a status line the      *)
(* parser accepted, where the Response is the one built from it.           *)
(***************************************************************************)
C1_FailedTransferReturnsNoResponse ==
    (/\ TransferFailed
     /\ hdrLog # <<>>
     /\ CreateHTTPResponse(hdrLog[1]).kind = "ok")
        => callerResult \notin {"response", "released"}

(***************************************************************************)
(* C2.  The caller never holds a Response without its body stream: when    *)
(* the Response is with the caller, the session is attached as its body    *)
(* stream and is alive, with its stream over the receive buffer in place.  *)
(***************************************************************************)
C2_ResponseHasBodyStream ==
    callerResult = "response" =>
        /\ response # nullptr
        /\ response.bodyStream = "session"
        /\ session = "alive"
        /\ m_responseStream # nullptr

C2_Witness ==
    /\ callerResult = "response"
    /\ response.bodyStream = "session"
    /\ m_responseStream.offset > 0

(***************************************************************************)
(* C3 as stated.  With cancellation requested at the call, the exchange    *)
(* ends in a cancellation error and no libcurl function has been called.   *)
(***************************************************************************)
C3_NoBackendOperationAtAll ==
    (cancelled /\ pc = "done") =>
        /\ callerResult = "exception"
        /\ error = "OperationCancelled"
        /\ calls = <<>>

(***************************************************************************)
(* C3 as amended.  With cancellation requested at the call, the only       *)
(* libcurl functions ever called are the acquisition of the session's      *)
(* handle and its release; the exchange ends in a cancellation error when  *)
(* the handle was acquired and in a resource error when it was not.        *)
(***************************************************************************)
C3_CancelledBeforeConfiguration ==
    cancelled =>
        /\ \A i \in 1..Len(calls) : calls[i] \in {"curl_easy_init", "curl_easy_cleanup"}
        /\ curl = NoOptions /\ slist = <<>> /\ performResult = "none"
        /\ pc = "done" =>
             /\ callerResult = "exception"
             /\ \/ error = "OperationCancelled"
                   /\ calls = <<"curl_easy_init", "curl_easy_cleanup">>
                \/ error = "ResourceError" /\ calls = <<"curl_easy_init">>

C3_Witness ==
    /\ cancelled
    /\ pc = "done"
    /\ error = "OperationCancelled"

(***************************************************************************)
(* C4.  On a completed exchange Length() is the unknown sentinel when the  *)
(* final headers have a transfer-encoding value containing "chunked", and  *)
(* the number of bytes appended to the receive buffer otherwise.           *)
(***************************************************************************)
C4_LengthFollowsFraming ==
    CallerHoldsBody =>
        Length = IF /\ TransferEncodingName \in DOMAIN response.headers
                    /\ Contains(response.headers[TransferEncodingName], ChunkedToken)
                 THEN UnknownLength
                 ELSE Len(Flatten(bodyLog))

C4_Witness ==
    /\ CallerHoldsBody
    /\ TransferEncodingName \in DOMAIN response.headers
    /\ Contains(response.headers[TransferEncodingName], ChunkedToken)
    /\ Len(Flatten(bodyLog)) > 0

(***************************************************************************)
(* C5.  Once the exchange is over and the session is gone, the handle and  *)
(* the header list the session acquired have each been released exactly    *)
(* once.                                                                   *)
(***************************************************************************)
C5_ResourcesReleasedOnce ==
    (pc = "done" /\ session # "alive" /\ callerResult # "crash") =>
        /\ Count(calls, "curl_easy_cleanup") = (IF m_curlHandle # "NULL" THEN 1 ELSE 0)
        /\ Count(calls, "curl_slist_free_all") = (IF m_headerHandle # "NULL" THEN 1 ELSE 0)

(***************************************************************************)
(* C6.  For POST and PUT, while the transfer runs the header list          *)
(* registered with the backend holds "Expect:" and every request header    *)
(* serialized as name:value.                                               *)
(***************************************************************************)
C6_ExpectRegisteredAtTransfer ==
    (pc = "perform" /\ request.method \in {"POST", "PUT"}) =>
        /\ \E i \in 1..Len(RegisteredHeaderList) : RegisteredHeaderList[i] = ExpectHeader
        /\ \A h \in 1..Len(request.headers) :
             \E i \in 1..Len(RegisteredHeaderList) :
                 RegisteredHeaderList[i] = SerializeHeader(request.headers[h])

(***************************************************************************)
(* C7.  For PUT the declared upload size is the body stream's Length() L   *)
(* when the transfer starts; the bytes UploadData produces are a prefix of *)
(* the body, never more than L; and while the backend keeps calling it     *)
(* with a capacity of at least 1, UploadData comes to return 0.            *)
(***************************************************************************)
C7_UploadDeclaredAndDrained ==
    /\ []((pc = "perform" /\ request.method = "PUT") =>
            curl["CURLOPT_INFILESIZE"] = Len(request.body))
    /\ []((request.method = "PUT") =>
            /\ Len(uploaded) <= Len(request.body)
            /\ IsPrefix(uploaded, request.body))
    /\ ((pc = "perform" /\ request.method = "PUT")
            ~> (lastUploadRet = 0 \/ pc # "perform"))

C7_Witness ==
    /\ request.method = "PUT"
    /\ pc = "perform"
    /\ lastUploadRet = 0
    /\ Len(uploaded) > 0
    /\ uploaded = request.body

(***************************************************************************)
(* C8.  For HEAD the receive buffer is empty in every state and the        *)
(* finalized body stream has zero bytes.                                   *)
(***************************************************************************)
C8_HeadBufferEmpty ==
    request.method = "HEAD" =>
        /\ m_responseData = <<>>
        /\ bodyLog = <<>>
        /\ m_responseStream # nullptr => m_responseStream.length = 0

C8_Witness ==
    /\ request.method = "HEAD"
    /\ CallerHoldsBody
    /\ Len(hdrLog) > 1

(***************************************************************************)
(* C9.  On the finalized body stream, whatever has been read so far,       *)
(* Rewind() followed by Read until it returns 0 yields the bytes that were *)
(* delivered during the transfer, in order, for every Read size; a second  *)
(* Rewind() changes nothing.                                               *)
(***************************************************************************)
C9_RewindThenReadAll ==
    CallerHoldsBody =>
        /\ \A count \in 1..MaxRead :
             ReadAll(StreamRewind(m_responseStream), m_responseData, count)
                 = Flatten(bodyLog)
        /\ StreamRewind(StreamRewind(m_responseStream)) = StreamRewind(m_responseStream)

C9_Witness ==
    /\ CallerHoldsBody
    /\ m_responseStream.offset > 0
    /\ m_responseStream.offset < m_responseStream.length
    /\ Len(bodyLog) > 1

(***************************************************************************)
(* C10.  The Response's header collection holds exactly one entry per      *)
(* lower-cased name among the header fragments delivered so far, and its   *)
(* value is that of the last delivered fragment with that name.            *)
(***************************************************************************)
C10_LastHeaderWins ==
    Shell # nullptr =>
        /\ DOMAIN Shell.headers =
             {ToLower(Str(hdrLog[i], 1, Find(hdrLog[i], 1, COLON))) : i \in NamedFragments}
        /\ \A i \in NamedFragments :
             (\A j \in NamedFragments :
                 j > i => ToLower(Str(hdrLog[j], 1, Find(hdrLog[j], 1, COLON)))
                            # ToLower(Str(hdrLog[i], 1, Find(hdrLog[i], 1, COLON))))
             => Shell.headers[ToLower(Str(hdrLog[i], 1, Find(hdrLog[i], 1, COLON)))]
                    = HeaderValueOf(hdrLog[i])

C10_Witness ==
    /\ Shell # nullptr
    /\ Len(hdrLog) = 3
    /\ HeaderNameOf(hdrLog[2]) = TransferEncodingName
    /\ HeaderNameOf(hdrLog[3]) = TransferEncodingName
    /\ hdrLog[2] # hdrLog[3]
    /\ Shell.headers[TransferEncodingName] = HeaderValueOf(hdrLog[3])

(***************************************************************************)
(* Helpers of the properties about single header fragments.                *)
(***************************************************************************)
\* the 2-byte terminator line
IsTerminator(s) == s = <<CR, LF>>

\* the step is one invocation of the header callback on a fragment after the
\* first
LaterHeaderCallback ==
    /\ Len(hdrLog) >= 1
    /\ Len(hdrLog') = Len(hdrLog) + 1

\* the fragment that invocation was given
DeliveredFragment == hdrLog'[Len(hdrLog')]

(***************************************************************************)
(* C11.  An invocation of the header callback, after the first, on the     *)
(* fragment "\r\n" changes nothing of the Response (no header added or      *)
(* overwritten, version, status and reason as they were) and raises no     *)
(* error: the transfer goes on.                                            *)
(***************************************************************************)
C11_TerminatorIsNoOp ==
    [][(LaterHeaderCallback /\ IsTerminator(DeliveredFragment)) =>
          /\ m_response' = m_response
          /\ m_response # nullptr
          /\ pc' = pc
          /\ callerResult' = callerResult
          /\ error' = error]_vars

C11_Witness ==
    /\ pc = "perform"
    /\ Len(hdrLog) = 3
    /\ IsTerminator(hdrLog[3])
    /\ m_response # nullptr
    /\ DOMAIN m_response.headers = {TransferEncodingName}

(***************************************************************************)
(* C12.  A configuration call of Send that did not succeed (an option the  *)
(* handle did not take, a header-list append that returned no list) is the *)
(* last configuration call of the exchange: Send has failed with an error, *)
(* only the release of the handle follows it, and the transfer was never   *)
(* started.                                                                *)
(***************************************************************************)
\* the exchange failed at calls[i] with one of `kinds`
FailedAtStep(i, kinds) ==
    /\ pc = "done"
    /\ callerResult = "exception"
    /\ error \in kinds
    /\ SubSeq(calls, i + 1, Len(calls)) = <<"curl_easy_cleanup">>
    /\ Count(calls, "curl_easy_perform") = 0
    /\ performResult = "none"
    /\ hdrLog = <<>> /\ bodyLog = <<>> /\ uploaded = <<>>

C12_FailedConfigurationStepIsFatal ==
    /\ \A i \in 1..Len(calls) :
         (calls[i] \in DOMAIN NoOptions /\ curl[calls[i]] = NoOptions[calls[i]])
             => FailedAtStep(i, {"ConfigurationError"})
    /\ Count(calls, "curl_slist_append") > Len(slist) =>
         /\ Len(calls) >= 2
         /\ calls[Len(calls) - 1] = "curl_slist_append"
         /\ FailedAtStep(Len(calls) - 1, {"ResourceError", "TransportException"})

C12_Witness ==
    /\ pc = "done"
    /\ error = "ConfigurationError"
    /\ request.method = "PUT"
    /\ Len(calls) >= 2
    /\ calls[Len(calls) - 1] = "CURLOPT_INFILESIZE"
    /\ curl["CURLOPT_INFILESIZE"] = NoOptions["CURLOPT_INFILESIZE"]
    /\ curl["CURLOPT_UPLOAD"] = 1

(***************************************************************************)
(* C13.  For POST, while the transfer runs, the bytes the backend has been *)
(* told to send are exactly the bytes of the body source, whatever they    *)
(* are (zero bytes included), without the NUL appended to the send buffer. *)
(***************************************************************************)
C13_PostSendsWholeBody ==
    (pc = "perform" /\ request.method = "POST") =>
        /\ m_sendBuffer = Append(request.body, 0)
        /\ PostFieldsBytes = request.body

(***************************************************************************)
(* C14.  When the first fragment is HTTP/<M>.<m> <code> <reason>\r\n, the  *)
(* Response shell exists from that invocation on and has major version M,  *)
(* minor version m, status code <code> and reason phrase <reason> (spaces  *)
(* kept, without the \r); its header collection is empty until a header    *)
(* fragment arrives.  M, m and <code> are decimal numbers as HTTP writes   *)
(* them.                                                                   *)
(***************************************************************************)
C14_StatusLineParsed ==
    \A major \in MajorVersions, minor \in MinorVersions,
       code \in StatusCodes, reason \in ReasonPhrases :
        (hdrLog # <<>> /\ hdrLog[1] = StatusLine(major, minor, code, reason)) =>
            /\ Shell # nullptr
            /\ Shell.majorVersion = major
            /\ Shell.minorVersion = minor
            /\ Shell.statusCode = code
            /\ Shell.reasonPhrase = reason
            /\ Len(hdrLog) = 1 => Shell.headers = EmptyHeaders

C14_Witness ==
    /\ pc = "perform"
    /\ Len(hdrLog) = 1
    /\ hdrLog[1] = StatusLine(2, 0, 404, <<78,111,116,32,70,111,117,110,100>>)
    /\ m_response # nullptr
    /\ m_response.statusCode = 404
    /\ m_response.reasonPhrase = <<78,111,116,32,70,111,117,110,100>>

(***************************************************************************)
(* C15.  In an exchange whose first fragment the status-line parser        *)
(* accepted, the version, status and reason of the Response shell are, for *)
(* as long as the shell exists, what the parser made of that fragment (the *)
(* shell is created once and never replaced), and no fragment handled      *)
(* after the first, by the header accumulator, is a status line.           *)
(***************************************************************************)
\* the fragment starts like a status line: "HTTP/"
IsStatusLine(s) == Len(s) >= 5 /\ SubSeq(s, 1, 5) = <<72,84,84,80,47>>

C15_StatusLineOnlyOnFirstInvocation ==
    (hdrLog # <<>> /\ CreateHTTPResponse(hdrLog[1]).kind = "ok") =>
        /\ Shell # nullptr =>
              LET first == CreateHTTPResponse(hdrLog[1]).response
              IN  /\ Shell.majorVersion = first.majorVersion
                  /\ Shell.minorVersion = first.minorVersion
                  /\ Shell.statusCode = first.statusCode
                  /\ Shell.reasonPhrase = first.reasonPhrase
        /\ \A i \in 2..Len(hdrLog) : ~IsStatusLine(hdrLog[i])

(***************************************************************************)
(* C16.  The body stream over the receive buffer exists only once          *)
(* curl_easy_perform has returned; from then on no step delivers a header  *)
(* or body fragment or changes the receive buffer, so the stream's length  *)
(* stays that of the buffer; and a Read on the body stream is never a step *)
(* of a running transfer.                                                  *)
(***************************************************************************)
C16_StreamCreatedAfterTransfer ==
    /\ [](m_responseStream # nullptr =>
            /\ pc \in {"attach", "done"}
            /\ performResult # "none"
            /\ m_responseStream.length = Len(m_responseData))
    /\ [][m_responseStream # nullptr =>
            /\ hdrLog' = hdrLog
            /\ bodyLog' = bodyLog
            /\ m_responseData' = m_responseData]_vars
    /\ [][(m_responseStream # nullptr /\ m_responseStream' # m_responseStream) =>
            (pc = "done" /\ callerResult = "response")]_vars

C16_Witness ==
    /\ pc = "attach"
    /\ m_responseStream # nullptr
    /\ m_responseStream.length = 3
    /\ Len(bodyLog) = 2
    /\ Len(hdrLog) >= 2

(***************************************************************************)
(* C17.  An invocation of the header callback, after the first, on a       *)
(* fragment that is not "\r\n" and has no ':' leaves the Response's        *)
(* header collection as it was and ends the exchange: the accumulator's    *)
(* error leaves the callback, and either reaches the caller as a parse     *)
(* error or ends the process on its way through the backend.  In no state  *)
(* after such a fragment does the caller hold a Response.                  *)
(***************************************************************************)
Undelimited(s) == ~IsTerminator(s) /\ Find(s, 1, COLON) = Len(s) + 1

C17_MissingDelimiterFailsExchange ==
    /\ [][(LaterHeaderCallback /\ Undelimited(DeliveredFragment)) =>
            /\ m_response' = m_response
            /\ pc' = "done"
            /\ callerResult' \in {"exception", "crash"}
            /\ callerResult' = "exception" => error' = "ParseError"]_vars
    /\ []((\E i \in 2..Len(hdrLog) : Undelimited(hdrLog[i])) =>
            /\ pc = "done"
            /\ callerResult \in {"exception", "crash"}
            /\ response = nullptr)

C17_Witness ==
    /\ pc = "done"
    /\ callerResult = "exception"
    /\ error = "ParseError"
    /\ Len(hdrLog) = 3
    /\ Undelimited(hdrLog[3])
    /\ ~IsStatusLine(hdrLog[3])
    /\ m_response # nullptr
    /\ DOMAIN m_response.headers = {<<120,45,97>>}

(***************************************************************************)
(* C18.  When the first fragment is malformed (shorter than "HTTP/", one   *)
(* of the separators '.', ' ', ' ', '\r' missing, version or status not    *)
(* numeric), no Response shell is ever made of it, the exchange has failed *)
(* with a parse error, and the lexer's cursor stayed within the fragment   *)
(* (at most at its end).                                                   *)
(***************************************************************************)
C18_MalformedStatusLineRejected ==
    (hdrLog # <<>> /\ hdrLog[1] \in MalformedStatusLines) =>
        /\ m_response = nullptr /\ response = nullptr
        /\ pc = "done"
        /\ callerResult = "exception"
        /\ error = "ParseError"
        /\ \A k \in 1..5 : StatusLineCursors(hdrLog[1])[k] <= Len(hdrLog[1]) + 1

(***************************************************************************)
(* C19.  When Send is at its post-transfer step the Response shell exists; *)
(* when MyTransport::Send attaches the body stream the Response it got     *)
(* from the session is not null; the caller is never handed a null         *)
(* Response.                                                               *)
(***************************************************************************)
C19_ShellExistsAfterTransfer ==
    /\ pc = "post" => (m_response # nullptr /\ hdrLog # <<>>)
    /\ pc = "attach" => response # nullptr
    /\ callerResult # "null"

(***************************************************************************)
(* C20.  In every state the receive buffer is the concatenation of the     *)
(* body fragments delivered so far, in delivery order; a step only ever    *)
(* extends it at the end; no data-receive callback made the backend end    *)
(* the transfer by reporting another size than that of its fragment; and   *)
(* the body the caller reads from the start is that concatenation.         *)
(***************************************************************************)
C20_BufferIsConcatenation ==
    /\ [](/\ m_responseData = Flatten(bodyLog)
          /\ performResult # "CURLE_WRITE_ERROR"
          /\ \A i \in 1..Len(bodyLog) : ReceiveDataReturn(bodyLog[i]) = Len(bodyLog[i])
          /\ CallerHoldsBody =>
                ReadAll(StreamRewind(m_responseStream), m_responseData, MaxRead)
                    = Flatten(bodyLog))
    /\ [][IsPrefix(m_responseData, m_responseData')]_vars

C20_Witness ==
    /\ pc = "perform"
    /\ Len(bodyLog) = 2
    /\ bodyLog[1] # bodyLog[2]
    /\ m_responseData = bodyLog[1] \o bodyLog[2]

====
